---- MODULE Spec2Model ----
(***************************************************************************)
(* Document Link Extractor: the content script (ContentExtractor) and the  *)
(* popup (DocumentExtractor) of src/content.js.                            *)
(*                                                                         *)
(* JavaScript strings are sequences of one-character strings, so that the  *)
(* regular expressions, the slugification and the URL handling of the code *)
(* are computed character by character.  null / undefined / "" (all falsy  *)
(* in the `||` chains and `!x` tests of the code) are the empty sequence   *)
(* where the code treats them alike.                                       *)
(***************************************************************************)
EXTENDS Integers, Sequences, FiniteSets, TLC

VARIABLES
    page,       \* the document: its link-like elements, in document order
    request,    \* the message the onMessage listener is handling
    pc,         \* position of the listener: "idle", "settled", "done"
    settled,    \* outcome of the promise returned by extractDocumentLinks
    responses,  \* the sendResponse calls made for the message, in order
    arg,        \* input of the function applied (function-level specifications)
    ret,        \* its results so far, in order
    extractedLinks, \* DocumentExtractor.extractedLinks, the list the popup holds
    batches,    \* the runs of downloadFiles, in the order they were started
    extracting, \* the calls of the popup's extractLinks under way, by the await they are at
    outcome     \* how the call of extractLinks that ended last ended

vars == <<page, request, pc, settled, responses, arg, ret, extractedLinks, batches,
          extracting, outcome>>
extractVars == <<page, request, pc, settled, responses>>
pureVars == <<arg, ret>>
attemptVars == <<extracting, outcome>>
popupVars == <<extractedLinks, batches, attemptVars>>

----------------------------------------------------------------------------
(* Bounds of the model *)

\* longest filename handed to slugifyFilename in SpecSlug
MaxNameLen == 4
\* most pieces a URL handed to the extension filter in SpecFilter is made of
MaxUrlParts == 5

----------------------------------------------------------------------------
(* Characters and strings *)

UpperSeq == <<"A","B","C","D","E","F","G","H","I","J","K","L","M",
              "N","O","P","Q","R","S","T","U","V","W","X","Y","Z">>
LowerSeq == <<"a","b","c","d","e","f","g","h","i","j","k","l","m",
              "n","o","p","q","r","s","t","u","v","w","x","y","z">>
DigitSeq == <<"0","1","2","3","4","5","6","7","8","9">>

Range(f) == {f[i] : i \in DOMAIN f}
Uppers == Range(UpperSeq)
Lowers == Range(LowerSeq)
Digits == Range(DigitSeq)
AlNum  == Uppers \cup Lowers \cup Digits
\* \w of JavaScript regular expressions
WordChars == AlNum \cup {"_"}
\* \s of JavaScript regular expressions, as far as the modelled texts contain it
Spaces == {" ", "\n", "\t"}

StringsUpTo(A, n) == UNION {[1..k -> A] : k \in 0..n}

LowerOf(c) ==
    IF c \in Uppers THEN LowerSeq[CHOOSE i \in DOMAIN UpperSeq : UpperSeq[i] = c] ELSE c
UpperOf(c) ==
    IF c \in Lowers THEN UpperSeq[CHOOSE i \in DOMAIN LowerSeq : LowerSeq[i] = c] ELSE c

toLowerCase(s) == [i \in 1..Len(s) |-> LowerOf(s[i])]
toUpperCase(s) == [i \in 1..Len(s) |-> UpperOf(s[i])]

\* s.substring(from) / s.substring(from, to) with 1-based inclusive positions
From(s, i) == SubSeq(s, i, Len(s))
Upto(s, i) == SubSeq(s, 1, i)

startsWith(s, p) == Len(s) >= Len(p) /\ SubSeq(s, 1, Len(p)) = p
\* p occurs in s at position i
At(s, i, p) == i >= 1 /\ i + Len(p) - 1 <= Len(s) /\ SubSeq(s, i, i + Len(p) - 1) = p
\* the same, ignoring case (the `i` flag)
AtNoCase(s, i, p) ==
    i >= 1 /\ i + Len(p) - 1 <= Len(s)
           /\ toLowerCase(SubSeq(s, i, i + Len(p) - 1)) = toLowerCase(p)

\* s.indexOf(c) and s.lastIndexOf(c), 1-based, 0 when absent (JavaScript: -1)
indexOf(s, c) ==
    IF \E i \in 1..Len(s) : s[i] = c
    THEN CHOOSE i \in 1..Len(s) : s[i] = c /\ \A j \in 1..(i-1) : s[j] # c
    ELSE 0
lastIndexOf(s, c) ==
    IF \E i \in 1..Len(s) : s[i] = c
    THEN CHOOSE i \in 1..Len(s) : s[i] = c /\ \A j \in (i+1)..Len(s) : s[j] # c
    ELSE 0

\* s.trim()
RECURSIVE TrimLeft(_)
TrimLeft(s) == IF s # <<>> /\ s[1] \in Spaces THEN TrimLeft(Tail(s)) ELSE s
RECURSIVE TrimRight(_)
TrimRight(s) ==
    IF s # <<>> /\ s[Len(s)] \in Spaces THEN TrimRight(Upto(s, Len(s) - 1)) ELSE s
trim(s) == TrimRight(TrimLeft(s))

\* seqs.join(sep)
RECURSIVE join(_, _)
join(seqs, sep) ==
    IF seqs = <<>> THEN <<>>
    ELSE IF Len(seqs) = 1 THEN seqs[1]
    ELSE seqs[1] \o sep \o join(Tail(seqs), sep)

----------------------------------------------------------------------------
(* ContentExtractor.parsePath and ContentExtractor.slugifyFilename *)

parsePath(filename) ==
    LET lastDotIndex == lastIndexOf(filename, ".")
    IN  IF lastDotIndex = 0 \/ lastDotIndex = 1
        THEN [name |-> filename, ext |-> <<>>]
        ELSE [name |-> Upto(filename, lastDotIndex - 1),
              ext  |-> From(filename, lastDotIndex)]

\* .replace(/[^a-z0-9]/g, '-')
ReplaceNonAlnum(s) ==
    [i \in 1..Len(s) |-> IF s[i] \in Lowers \cup Digits THEN s[i] ELSE "-"]

\* .replace(/-+/g, '-')
RECURSIVE CollapseHyphens(_)
CollapseHyphens(s) ==
    IF Len(s) <= 1 THEN s
    ELSE IF s[1] = "-" /\ s[2] = "-" THEN CollapseHyphens(Tail(s))
    ELSE <<s[1]>> \o CollapseHyphens(Tail(s))

\* .replace(/^-|-$/g, ''): one leading hyphen, then one trailing hyphen of the rest
TrimHyphens(s) ==
    LET a == IF s # <<>> /\ s[1] = "-" THEN Tail(s) ELSE s
    IN  IF a # <<>> /\ a[Len(a)] = "-" THEN Upto(a, Len(a) - 1) ELSE a

\* now: the digits of Date.now()
slugifyFilename(filename, now) ==
    IF filename = <<>> THEN <<>>
    ELSE LET parsed   == parsePath(filename)
             namePart == IF parsed.name # <<>> THEN parsed.name
                         ELSE <<"f","i","l","e","-">> \o now
             slug     == TrimHyphens(CollapseHyphens(ReplaceNonAlnum(toLowerCase(namePart))))
         IN  slug \o parsed.ext

----------------------------------------------------------------------------
(* Idle values of the variables a specification does not use *)

IdleExtract ==
    /\ page = <<>>
    /\ request = [action |-> "none"]
    /\ pc = "idle"
    /\ settled = [state |-> "none"]
    /\ responses = <<>>

IdlePure == arg = <<>> /\ ret = <<>>

\* the popup as its constructor leaves it: no links, no download started
IdlePopup ==
    /\ extractedLinks = <<>>
    /\ batches = <<>>
    /\ extracting = [tab |-> 0, message |-> 0]
    /\ outcome = "none"

----------------------------------------------------------------------------
(* SpecSlug: slugifyFilename applied to a filename, and again to its result *)

\* Date.now() as digits
Clock == {<<"7">>, <<"8">>}

SlugChars == {"a", "B", "1", ".", "-", " "}

InitSlug ==
    /\ IdleExtract
    /\ IdlePopup
    /\ arg \in [name : StringsUpTo(SlugChars, MaxNameLen), now : Clock]
    /\ ret = <<>>

Slugify ==
    /\ Len(ret) = 0
    /\ ret' = <<slugifyFilename(arg.name, arg.now)>>
    /\ UNCHANGED <<arg, extractVars, popupVars>>

SlugifyAgain ==
    /\ Len(ret) = 1
    /\ ret' = Append(ret, slugifyFilename(ret[1], arg.now))
    /\ UNCHANGED <<arg, extractVars, popupVars>>

NextSlug == Slugify \/ SlugifyAgain

SpecSlug == InitSlug /\ [][NextSlug]_vars

\* C8: slugification is idempotent: slugifyFilename(slugifyFilename(s)) equals
\* slugifyFilename(s) for every input s, inputs of dots and other
\* non-alphanumeric characters included.
C8_SlugifyIdempotent == Len(ret) = 2 => ret[2] = ret[1]

\* the input ".." : slugified once it is ".", slugified twice it is ""
C8_DotsInput ==
    Len(ret) = 2 /\ arg.name = <<".", ".">> /\ ret[1] = <<".">> /\ ret[2] = <<>>

----------------------------------------------------------------------------
(* The extension filter of extractDocumentLinks: a case-insensitive        *)
(* RegExp of a dot, the group of the configured extensions joined by "|",  *)
(* an optional group of "?" and any characters, and the end of the string. *)

\* the alternatives of the group: [].join('|') is '', so an empty list leaves
\* the single empty alternative
Alternatives(fileExtensions) ==
    IF fileExtensions = <<>> THEN {<<>>} ELSE Range(fileExtensions)

\* the RegExp constructor throws a SyntaxError on an alternative that starts
\* with a quantifier ("nothing to repeat"); the extensions are not escaped
RegExpThrows(fileExtensions) ==
    \E e \in Range(fileExtensions) : e # <<>> /\ e[1] \in {"*", "+", "?"}

\* the optional query group and the end anchor at position i: the end of the string, or a "?" followed by
\* characters other than line terminators up to the end
QueryThenEnd(url, i) ==
    \/ i = Len(url) + 1
    \/ /\ i <= Len(url)
       /\ url[i] = "?"
       /\ \A k \in (i+1)..Len(url) : url[k] # "\n"

\* the filter without the `i` flag
extPatternTest_CaseSensitive(fileExtensions, url) ==
    \E i \in 1..Len(url) :
        /\ url[i] = "."
        /\ \E e \in Alternatives(fileExtensions) :
              /\ At(url, i + 1, e)
              /\ QueryThenEnd(url, i + 1 + Len(e))

\* extPattern.test(url)
extPatternTest(fileExtensions, url) ==
    \E i \in 1..Len(url) :
        /\ url[i] = "."
        /\ \E e \in Alternatives(fileExtensions) :
              /\ AtNoCase(url, i + 1, e)
              /\ QueryThenEnd(url, i + 1 + Len(e))

----------------------------------------------------------------------------
(* SpecFilter: the extension filter applied to one URL *)

pdf  == <<"p","d","f">>
doc  == <<"d","o","c">>
pdfx == <<"p","d","f","x">>

UrlPieces == {<<".">>, <<"?">>, <<"x">>, pdf, <<"P","d","F">>, doc}

RECURSIVE Flatten(_)
Flatten(seqs) == IF seqs = <<>> THEN <<>> ELSE Head(seqs) \o Flatten(Tail(seqs))

FilterUrls == {Flatten(ps) : ps \in StringsUpTo(UrlPieces, MaxUrlParts)}

\* the configured lists: each contains pdf
FilterExtLists == {<<pdf>>, <<doc, pdf>>, <<pdf, <<"x">>>>, <<pdf, <<"D","O","C">>>>}

InitFilter ==
    /\ IdleExtract
    /\ IdlePopup
    /\ arg \in [url : FilterUrls, exts : FilterExtLists]
    /\ ret = <<>>

TestUrl ==
    /\ Len(ret) = 0
    /\ ret' = <<extPatternTest(arg.exts, arg.url)>>
    /\ UNCHANGED <<arg, extractVars, popupVars>>

NextFilter == TestUrl

SpecFilter == InitFilter /\ [][NextFilter]_vars

endsWith(s, p) == Len(s) >= Len(p) /\ SubSeq(s, Len(s) - Len(p) + 1, Len(s)) = p

\* url is: anything, a dot, the extension e in any letter case, and then
\* nothing or a query string ("?" and anything)
EndsInExtAndQuery(url, e) ==
    \E j \in 1..Len(url) :
        /\ endsWith(toLowerCase(Upto(url, j)), <<".">> \o toLowerCase(e))
        /\ (j = Len(url) \/ url[j + 1] = "?")

\* C3: with pdf configured, a URL ending in ".pdf" and an optional query
\* string is accepted whatever its letter case; a URL ending in ".pdfx" (and
\* holding no "?", so that the ending is not part of a query string) is not
\* accepted unless pdfx itself is configured; and a URL is accepted only if it
\* ends in a dot, one configured extension and an optional query string.
C3_ExtensionFilter ==
    Len(ret) = 1 =>
        /\ (EndsInExtAndQuery(arg.url, pdf) => ret[1])
        /\ (endsWith(toLowerCase(arg.url), <<".">> \o pdfx)
              /\ indexOf(arg.url, "?") = 0
              /\ pdfx \notin Range(arg.exts) => ~ret[1])
        /\ (ret[1] => \E e \in Range(arg.exts) : EndsInExtAndQuery(arg.url, e))

\* an upper-case ".PdF" followed by a query string has been accepted
C3_QueryAccepted ==
    /\ Len(ret) = 1
    /\ arg.url = <<"x", ".", "P", "d", "F", "?", "x">>
    /\ ret[1]

\* a URL ending in ".pdfx" has been rejected
C3_PdfxRejected ==
    /\ Len(ret) = 1
    /\ arg.url = <<"x", ".", "p", "d", "f", "x">>
    /\ ~ret[1]

----------------------------------------------------------------------------
(* new URL(link, base): the URL parser of the platform, for the URLs of    *)
(* the model: http(s) URLs with a host, a path, a query and a fragment,    *)
(* other schemes with an opaque path, and references relative to a base.   *)
(* User information, ports, IPv6 literals, backslashes and percent-encoded *)
(* dot segments are not in the modelled inputs.                            *)

\* the part of s before the first c, and the part from the first c on
Before(s, c)   == IF indexOf(s, c) = 0 THEN s ELSE Upto(s, indexOf(s, c) - 1)
FromChar(s, c) == IF indexOf(s, c) = 0 THEN <<>> ELSE From(s, indexOf(s, c))

\* s.split(c)
RECURSIVE split(_, _)
split(s, c) ==
    IF indexOf(s, c) = 0 THEN <<s>>
    ELSE <<Upto(s, indexOf(s, c) - 1)>> \o split(From(s, indexOf(s, c) + 1), c)

\* the parser drops tabs and newlines anywhere and spaces at both ends
StripTabNl(s) == SelectSeq(s, LAMBDA c : c \notin {"\t", "\n"})

SchemeChars == AlNum \cup {"+", "-", "."}
\* length of the scheme s starts with (letters up to the first ":"), 0 if none
SchemeLen(s) ==
    LET c == indexOf(s, ":")
    IN  IF c >= 2 /\ s[1] \in (Uppers \cup Lowers)
                  /\ \A k \in 2..(c - 1) : s[k] \in SchemeChars
        THEN c - 1 ELSE 0

SpecialSchemes == {<<"h","t","t","p">>, <<"h","t","t","p","s">>}

\* code points a host may not hold
ForbiddenHostChars == {" ", "#", "%", "/", ":", "<", ">", "?", "@", "[", "\\", "]", "^", "|"}

\* percent-encoding of a path, query or fragment: the space
RECURSIVE PercentEncode(_)
PercentEncode(s) ==
    IF s = <<>> THEN <<>>
    ELSE (IF s[1] = " " THEN <<"%","2","0">> ELSE <<s[1]>>) \o PercentEncode(Tail(s))

\* removal of the "." and ".." segments of a path
RECURSIVE RemoveDotSegments(_, _)
RemoveDotSegments(segs, acc) ==
    IF segs = <<>> THEN acc
    ELSE LET seg    == Head(segs)
             isLast == Len(segs) = 1
             slash  == IF isLast THEN << <<>> >> ELSE <<>>
         IN  IF seg = <<".",".">>
             THEN RemoveDotSegments(Tail(segs),
                      (IF acc = <<>> THEN acc ELSE Upto(acc, Len(acc) - 1)) \o slash)
             ELSE IF seg = <<".">>
             THEN RemoveDotSegments(Tail(segs), acc \o slash)
             ELSE RemoveDotSegments(Tail(segs), Append(acc, seg))

\* path starts with "/"
NormalisePath(path) ==
    <<"/">> \o join(RemoveDotSegments(split(Tail(PercentEncode(path)), "/"), <<>>), <<"/">>)

InvalidURL == [ok |-> FALSE]

\* after "scheme://": host, path, query
ParseAuthority(scheme, rest, fragment) ==
    LET hostEnd  == IF \E k \in 1..Len(rest) : rest[k] \in {"/", "?"}
                    THEN (CHOOSE k \in 1..Len(rest) :
                             /\ rest[k] \in {"/", "?"}
                             /\ \A j \in 1..(k - 1) : rest[j] \notin {"/", "?"}) - 1
                    ELSE Len(rest)
        host     == toLowerCase(Upto(rest, hostEnd))
        tail     == From(rest, hostEnd + 1)
        pathPart == Before(tail, "?")
    IN  IF host = <<>> \/ \E k \in 1..Len(host) : host[k] \in ForbiddenHostChars
        THEN InvalidURL
        ELSE [ok |-> TRUE, scheme |-> scheme, special |-> TRUE, host |-> host,
              path |-> NormalisePath(IF pathPart = <<>> THEN <<"/">> ELSE pathPart),
              query |-> PercentEncode(FromChar(tail, "?")),
              fragment |-> fragment]

RECURSIVE DropSlashes(_)
DropSlashes(s) == IF s # <<>> /\ s[1] = "/" THEN DropSlashes(Tail(s)) ELSE s

\* a reference without a scheme, against a parsed http(s) base
ParseRelative(rest, base, fragment) ==
    LET pathPart == Before(rest, "?")
        query    == PercentEncode(FromChar(rest, "?"))
        baseDir  == Upto(base.path, lastIndexOf(base.path, "/"))
    IN  IF startsWith(rest, <<"/","/">>)
        THEN ParseAuthority(base.scheme, DropSlashes(rest), fragment)
        ELSE IF rest = <<>>
        THEN [base EXCEPT !.fragment = fragment]
        ELSE IF pathPart = <<>>
        THEN [base EXCEPT !.query = query, !.fragment = fragment]
        ELSE [base EXCEPT
                 !.path = NormalisePath(IF pathPart[1] = "/" THEN pathPart
                                        ELSE baseDir \o pathPart),
                 !.query = query, !.fragment = fragment]

\* base: a parsed URL, or InvalidURL for "no base"
ParseWithBase(input, base) ==
    LET s        == trim(StripTabNl(input))
        fragment == PercentEncode(FromChar(s, "#"))
        rest     == Before(s, "#")
        n        == SchemeLen(rest)
        scheme   == toLowerCase(Upto(rest, n))
        after    == From(rest, n + 2)
    IN  IF n > 0
        THEN IF scheme \in SpecialSchemes
             THEN IF base.ok /\ base.scheme = scheme /\ ~startsWith(after, <<"/">>)
                  THEN ParseRelative(after, base, fragment)
                  ELSE ParseAuthority(scheme, DropSlashes(after), fragment)
             ELSE [ok |-> TRUE, scheme |-> scheme, special |-> FALSE, host |-> <<>>,
                   path |-> Before(after, "?"),
                   query |-> FromChar(after, "?"),
                   fragment |-> fragment]
        ELSE IF base.ok /\ base.special
        THEN ParseRelative(rest, base, fragment)
        ELSE InvalidURL

\* new URL(link, base): the base is parsed first, and a base that does not
\* parse makes the constructor throw
ParseURL(link, base) ==
    LET b == ParseWithBase(base, InvalidURL)
    IN  IF b.ok THEN ParseWithBase(link, b) ELSE InvalidURL

\* url.toString()
Href(u) ==
    u.scheme \o <<":">> \o (IF u.special THEN <<"/","/">> \o u.host ELSE <<>>)
             \o u.path \o u.query \o u.fragment

\* makeAbsoluteUrl whose catch block returns an empty string
makeAbsoluteUrl_EmptyOnFailure(link, baseUrl) ==
    LET u == ParseURL(link, baseUrl)
    IN  IF u.ok THEN Href(u) ELSE <<>>

\* ContentExtractor.makeAbsoluteUrl
makeAbsoluteUrl(link, baseUrl) ==
    LET u == ParseURL(link, baseUrl)
    IN  IF u.ok THEN Href(u) ELSE link

----------------------------------------------------------------------------
(* The DOM as the content script reads it.                                 *)
(*                                                                         *)
(* An element is a record:                                                 *)
(*   attrs   its attributes, a function from the names present to values   *)
(*   nodes   its child nodes in order, each [text, sizeNode]: the text the *)
(*           node contributes to textContent, and whether the node is an   *)
(*           element matching '[data-size], [data-filesize], .file-size,   *)
(*           .size'                                                        *)
(*   anc     its ancestors from the parent outwards, each [before, after]: *)
(*           the textContent of the ancestor's other child elements that   *)
(*           precede and follow (for the parent: the element's siblings)   *)
(*   region  "header", "footer" or "main": the landmark region it is in    *)

\* element.getAttribute(name) where the code only tests the result for
\* truthiness: null and "" are both the empty string
getAttribute(element, name) ==
    IF name \in DOMAIN element.attrs THEN element.attrs[name] ELSE <<>>

\* a || b || ... : the first truthy string, else the last operand
RECURSIVE FirstTruthy(_)
FirstTruthy(values) ==
    IF values = <<>> THEN <<>>
    ELSE IF Head(values) # <<>> THEN Head(values)
    ELSE FirstTruthy(Tail(values))

textContent(element) == Flatten([i \in 1..Len(element.nodes) |-> element.nodes[i].text])

\* .replace(/\s+/g, ' ')
RECURSIVE CollapseSpaces(_)
CollapseSpaces(s) ==
    IF s = <<>> THEN <<>>
    ELSE IF s[1] \in Spaces
    THEN IF Len(s) >= 2 /\ s[2] \in Spaces THEN CollapseSpaces(Tail(s))
         ELSE <<" ">> \o CollapseSpaces(Tail(s))
    ELSE <<s[1]>> \o CollapseSpaces(Tail(s))

\* ContentExtractor.extractElementText, on the textContent of the clone
CleanText(text) == trim(CollapseSpaces(text))
extractElementText(element) == CleanText(textContent(element))

\* textContent of the k-th ancestor of the element (1: the parent)
RECURSIVE ancestorText(_, _)
ancestorText(element, k) ==
    Flatten(element.anc[k].before)
        \o (IF k = 1 THEN textContent(element) ELSE ancestorText(element, k - 1))
        \o Flatten(element.anc[k].after)

----------------------------------------------------------------------------
(* ContentExtractor.extractExtension, extractFilename, decodeURIComponent *)

\* last position of the run of characters of `set` that starts at i (i - 1 if none)
RECURSIVE RunEnd(_, _, _)
RunEnd(s, i, set) ==
    IF i <= Len(s) /\ s[i] \in set THEN RunEnd(s, i + 1, set) ELSE i - 1

\* /\.([a-zA-Z0-9]+)(\?.*)?$/ matches at the dot at position i
ExtensionAt(path, i) ==
    /\ path[i] = "."
    /\ RunEnd(path, i + 1, AlNum) > i
    /\ QueryThenEnd(path, RunEnd(path, i + 1, AlNum) + 1)

extractExtension(path) ==
    LET hits == {i \in 1..Len(path) : ExtensionAt(path, i)}
    IN  IF hits = {} THEN <<>>
        ELSE LET i == CHOOSE h \in hits : \A g \in hits : h <= g
             IN  toLowerCase(SubSeq(path, i + 1, RunEnd(path, i + 1, AlNum)))

HexSeq == <<"0","1","2","3","4","5","6","7","8","9","a","b","c","d","e","f">>
HexDigits == Range(HexSeq)
HexVal(c) == (CHOOSE i \in DOMAIN HexSeq : HexSeq[i] = LowerOf(c)) - 1
IsHex(c) == LowerOf(c) \in HexDigits

\* the printable ASCII characters, from the space (code 32) to "~" (code 126);
\* "GRAVE" stands for the grave accent (code 96)
Ascii == <<" ","!","\"","#","$","%","&","'","(",")","*","+",",","-",".","/">>
         \o DigitSeq \o <<":",";","<","=",">","?","@">> \o UpperSeq
         \o <<"[","\\","]","^","_","GRAVE">> \o LowerSeq \o <<"{","|","}","~">>

\* decodeURIComponent(s): [ok, value]; ok is FALSE where it throws URIError:
\* on a "%" not followed by two hex digits, and on a byte that is no ASCII
\* character (multi-byte sequences are not in the modelled inputs, and a lone
\* byte of one is malformed)
RECURSIVE decodeURIComponent(_)
decodeURIComponent(s) ==
    IF s = <<>> THEN [ok |-> TRUE, value |-> <<>>]
    ELSE IF s[1] # "%"
    THEN LET rest == decodeURIComponent(Tail(s))
         IN  IF rest.ok THEN [ok |-> TRUE, value |-> <<s[1]>> \o rest.value] ELSE rest
    ELSE IF ~(Len(s) >= 3 /\ IsHex(s[2]) /\ IsHex(s[3]))
    THEN [ok |-> FALSE]
    ELSE LET code == 16 * HexVal(s[2]) + HexVal(s[3])
             rest == decodeURIComponent(From(s, 4))
         IN  IF code < 32 \/ code > 126 THEN [ok |-> FALSE]
             ELSE IF rest.ok
             THEN [ok |-> TRUE, value |-> <<Ascii[code - 31]>> \o rest.value]
             ELSE rest

\* most characters of element text a filename is derived from (text.length < 100)
MaxTextLen == 100

\* "." + ext when there is an extension
DotExt(ext) == IF ext # <<>> THEN <<".">> \o ext ELSE <<>>

\* ContentExtractor.extractFilename: [ok, value]; ok is FALSE where it throws
extractFilename(pathname, element, now) ==
    LET contentDisposition == getAttribute(element, "data-filename")
        pathParts == split(pathname, "/")
        lastPart  == pathParts[Len(pathParts)]
        text      == extractElementText(element)
        ext       == extractExtension(pathname)
    IN  IF contentDisposition # <<>>
        THEN [ok |-> TRUE, value |-> contentDisposition]
        ELSE IF lastPart # <<>> /\ indexOf(lastPart, ".") # 0
        THEN decodeURIComponent(split(lastPart, "?")[1])
        ELSE IF text # <<>> /\ Len(text) > 0 /\ Len(text) < MaxTextLen
        THEN [ok |-> TRUE, value |-> slugifyFilename(text \o DotExt(ext), now)]
        ELSE [ok |-> TRUE, value |-> <<"d","o","c","u","m","e","n","t","-">> \o now \o DotExt(ext)]

----------------------------------------------------------------------------
(* ContentExtractor.estimateFileSize and ContentExtractor.convertToBytes   *)

\* null, where the code keeps a byte count
Null == -1

RECURSIVE DigitsToNat(_)
DigitsToNat(ds) ==
    IF ds = <<>> THEN 0
    ELSE 10 * DigitsToNat(Upto(ds, Len(ds) - 1))
            + ((CHOOSE i \in DOMAIN DigitSeq : DigitSeq[i] = ds[Len(ds)]) - 1)

RECURSIVE NatToDigits(_)
NatToDigits(n) ==
    IF n < 10 THEN <<DigitSeq[n + 1]>>
    ELSE NatToDigits(n \div 10) \o <<DigitSeq[(n % 10) + 1]>>

RECURSIVE Pow(_, _)
Pow(b, e) == IF e = 0 THEN 1 ELSE b * Pow(b, e - 1)

\* parseInt(s): [nan, value]; the digits s starts with after white space
\* (signs and the 0x prefix are not in the modelled inputs)
parseInt(s) ==
    LET t == TrimLeft(s)
        e == RunEnd(t, 1, Digits)
    IN  IF e = 0 THEN [nan |-> TRUE, value |-> 0]
        ELSE [nan |-> FALSE, value |-> DigitsToNat(Upto(t, e))]

\* parseFloat(s) of digits with an optional fraction, as the exact fraction num/den
parseFloat(s) ==
    LET dot == indexOf(s, ".")
    IN  IF dot = 0 THEN [num |-> DigitsToNat(s), den |-> 1]
        ELSE [num |-> DigitsToNat(Upto(s, dot - 1) \o From(s, dot + 1)),
              den |-> Pow(10, Len(s) - dot)]

\* Math.round(value * factor): halves round up
RoundTimes(value, factor) == (2 * value.num * factor + value.den) \div (2 * value.den)

convertToBytes(value, unit) ==
    IF value.num = 0 THEN Null
    ELSE CASE unit = <<"T","B">> -> RoundTimes(value, 1024 * 1024 * 1024 * 1024)
           [] unit = <<"G","B">> -> RoundTimes(value, 1024 * 1024 * 1024)
           [] unit = <<"M","B">> -> RoundTimes(value, 1024 * 1024)
           [] unit = <<"K","B">> -> RoundTimes(value, 1024)
           [] unit \in {<<"B","Y","T","E","S">>, <<"B","Y","T","E">>, <<"B">>} -> RoundTimes(value, 1)
           [] OTHER -> RoundTimes(value, 1)

\* `if (bytes) return bytes`: null and 0 are falsy
Truthy(bytes) == bytes # Null /\ bytes # 0

\* end of \d+(?:\.\d+)? starting at the digit at i
DecimalEnd(s, i) ==
    LET intEnd == RunEnd(s, i, Digits)
    IN  IF intEnd + 2 <= Len(s) /\ s[intEnd + 1] = "." /\ s[intEnd + 2] \in Digits
        THEN RunEnd(s, intEnd + 2, Digits) ELSE intEnd

\* end of \d+(?:,\d{3})* starting at the digit at i
RECURSIVE CommaGroupsEnd(_, _)
CommaGroupsEnd(s, e) ==
    IF e + 4 <= Len(s) /\ s[e + 1] = ","
                       /\ \A k \in (e + 2)..(e + 4) : s[k] \in Digits
    THEN CommaGroupsEnd(s, e + 4) ELSE e
CommaNumberEnd(s, i) == CommaGroupsEnd(s, RunEnd(s, i, Digits))

\* the first alternative of `alts` found at i, ignoring case (<<>> if none)
RECURSIVE FirstAlt(_, _, _)
FirstAlt(s, i, alts) ==
    IF alts = <<>> THEN <<>>
    ELSE IF AtNoCase(s, i, Head(alts)) THEN SubSeq(s, i, i + Len(Head(alts)) - 1)
    ELSE FirstAlt(s, i, Tail(alts))

\* The four regular expressions of estimateFileSize.  prefix: the literal
\* "size" and [:\s]* come first; commas: the number is \d+(?:,\d{3})*, not
\* \d+(?:\.\d+)?; units: the alternatives of the unit group, in order;
\* boundary: a \b follows; group2: the unit is a capturing group
KBMBGBTB == <<<<"K","B">>, <<"M","B">>, <<"G","B">>, <<"T","B">>>>
SizePattern ==
    [prefix |-> FALSE, commas |-> FALSE, units |-> KBMBGBTB \o <<<<"b","y","t","e","s">>, <<"b","y","t","e">>>>,
     boundary |-> FALSE, group2 |-> TRUE]
BytesPattern ==
    [prefix |-> FALSE, commas |-> TRUE, units |-> <<<<"b","y","t","e","s">>, <<"b","y","t","e">>>>,
     boundary |-> FALSE, group2 |-> FALSE]
LabelledPattern ==
    [prefix |-> TRUE, commas |-> FALSE, units |-> KBMBGBTB \o <<<<"B">>>>,
     boundary |-> FALSE, group2 |-> TRUE]
ShortPattern ==
    [prefix |-> FALSE, commas |-> FALSE, units |-> KBMBGBTB \o <<<<"B">>>>,
     boundary |-> TRUE, group2 |-> TRUE]

\* the match of pattern p that starts at position i: [found, number, unit]
MatchAt(s, i, p) ==
    LET numStart == IF p.prefix
                    THEN IF AtNoCase(s, i, <<"s","i","z","e">>)
                         THEN RunEnd(s, i + 4, Spaces \cup {":"}) + 1
                         ELSE 0
                    ELSE i
        isNum    == numStart >= 1 /\ numStart <= Len(s) /\ s[numStart] \in Digits
        numEnd   == IF p.commas THEN CommaNumberEnd(s, numStart)
                    ELSE DecimalEnd(s, numStart)
        unitAt   == RunEnd(s, numEnd + 1, Spaces) + 1
        unit     == FirstAlt(s, unitAt, p.units)
        after    == unitAt + Len(unit)
    IN  IF isNum /\ unit # <<>>
              /\ (p.boundary => (after > Len(s) \/ s[after] \notin WordChars))
        THEN [found |-> TRUE, number |-> SubSeq(s, numStart, numEnd), unit |-> unit]
        ELSE [found |-> FALSE]

\* text.match(pattern): the leftmost match
Match(s, p) ==
    LET at   == [i \in 1..Len(s) |-> MatchAt(s, i, p)]
        hits == {i \in 1..Len(s) : at[i].found}
    IN  IF hits = {} THEN [found |-> FALSE]
        ELSE at[CHOOSE h \in hits : \A g \in hits : h <= g]

RemoveCommas(s) == SelectSeq(s, LAMBDA c : c # ",")

\* the bytes a match converts to (Null when there is no match)
MatchBytes(s, p) ==
    LET m == Match(s, p)
    IN  IF ~m.found THEN Null
        ELSE convertToBytes(parseFloat(RemoveCommas(m.number)),
                            IF p.group2 THEN toUpperCase(m.unit) ELSE <<"B">>)

\* the first truthy byte count of a sequence of lookups (Null if none)
RECURSIVE FirstBytes(_)
FirstBytes(results) ==
    IF results = <<>> THEN Null
    ELSE IF Truthy(Head(results)) THEN Head(results)
    ELSE FirstBytes(Tail(results))

SizeAttributes == <<"data-size", "data-filesize", "data-bytes", "data-file-size",
                    "size", "filesize">>

\* 1. the data attributes
sizeAttr(element) ==
    FirstTruthy([i \in 1..Len(SizeAttributes) |-> getAttribute(element, SizeAttributes[i])])

\* most ancestors whose text is searched (depth < 3)
MaxParentDepth == 3

\* a lookup: a text and the pattern it is searched with
Lookup(text, pattern) == [text |-> CleanText(text), pattern |-> pattern]

\* 2. the text of the parent elements, nearest first
ParentLookups(element) ==
    LET depth == IF Len(element.anc) < MaxParentDepth THEN Len(element.anc)
                 ELSE MaxParentDepth
    IN  [k \in 1..depth |-> Lookup(ancestorText(element, k), SizePattern)]

\* 3. the text of the sibling elements, in document order
SiblingLookups(element) ==
    LET siblings == IF element.anc = <<>> THEN <<>>
                    ELSE element.anc[1].before \o element.anc[1].after
    IN  [k \in 1..Len(siblings) |-> Lookup(siblings[k], SizePattern)]

\* 4. the text of the element, pattern by pattern
OwnTextLookups(element) ==
    LET patterns == <<SizePattern, BytesPattern, LabelledPattern, ShortPattern>>
    IN  [k \in 1..Len(patterns) |-> Lookup(textContent(element), patterns[k])]

\* 5. aria-label and title (the combined text is searched as it is)
AttrLookups(element) ==
    <<[text    |-> getAttribute(element, "aria-label") \o <<" ">>
                      \o getAttribute(element, "title"),
       pattern |-> SizePattern]>>

\* 6. the first descendant that matches the size selector
HiddenLookups(element) ==
    LET hits == {i \in 1..Len(element.nodes) : element.nodes[i].sizeNode}
    IN  IF hits = {} THEN <<>>
        ELSE <<Lookup(element.nodes[CHOOSE h \in hits : \A g \in hits : h <= g].text,
                      SizePattern)>>

\* the heuristic lookups after the data attributes, in the order of the code
TextLookups(element) ==
    ParentLookups(element) \o SiblingLookups(element) \o OwnTextLookups(element)
        \o AttrLookups(element) \o HiddenLookups(element)

\* the byte count each lookup converts to
SizesOf(lookups) ==
    [k \in 1..Len(lookups) |-> MatchBytes(lookups[k].text, lookups[k].pattern)]

TextSizes(element) == SizesOf(TextLookups(element))

\* estimateFileSize with the element's own text searched before the text of
\* its ancestors and siblings
estimateFileSize_OwnTextFirst(element, extension) ==
    LET attr == sizeAttr(element)
        size == parseInt(attr)
    IN  IF attr # <<>> /\ ~size.nan THEN size.value
        ELSE FirstBytes(SizesOf(OwnTextLookups(element) \o ParentLookups(element)
                                   \o SiblingLookups(element) \o AttrLookups(element)
                                   \o HiddenLookups(element)))

\* ContentExtractor.estimateFileSize (the extension is not read)
estimateFileSize(element, extension) ==
    LET attr == sizeAttr(element)
        size == parseInt(attr)
    IN  IF attr # <<>> /\ ~size.nan THEN size.value
        ELSE FirstBytes(TextSizes(element))

----------------------------------------------------------------------------
(* ContentExtractor.humanFileSize, buildTooltip and extractLinkMetadata    *)

UnitNames == <<<<"B">>, <<"K","B">>, <<"M","B">>, <<"G","B">>>>

\* the index the while loop stops at: size is divided by 1024 while it is at
\* least 1024 and a larger unit is left
RECURSIVE UnitIndex(_, _)
UnitIndex(bytes, k) ==
    IF bytes \div Pow(1024, k) >= 1024 /\ k < Len(UnitNames) - 1
    THEN UnitIndex(bytes, k + 1) ELSE k

\* (bytes / 1024^k).toFixed(1): tenths, halves rounded up
humanFileSize(bytes) ==
    IF ~Truthy(bytes) THEN <<"U","n","k","n","o","w","n"," ","s","i","z","e">>
    ELSE LET k      == UnitIndex(bytes, 0)
             d      == Pow(1024, k)
             tenths == (20 * bytes + d) \div (2 * d)
         IN  NatToDigits(tenths \div 10) \o <<".">> \o NatToDigits(tenths % 10)
                 \o <<" ">> \o UnitNames[k + 1]

buildTooltip(extension, sizeBytes) ==
    LET kind == IF extension # <<>> THEN toUpperCase(extension) ELSE <<"F","I","L","E">>
        size == IF Truthy(sizeBytes) THEN humanFileSize(sizeBytes)
                ELSE <<"s","i","z","e"," ","n","o","t"," ","a","v","a","i","l","a","b","l","e">>
    IN  kind \o <<","," ">> \o size \o <<","," ","o","p","e","n","s"," ","i","n"," ","a"," ","n","e","w"," ","w","i","n","d","o","w">>

\* window.location.href of the page the content script runs in
LocationHref == <<"h","t","t","p","s",":","/","/","e",".","c","o","/","d","/","p">>

\* .replace(/\.[^.]*$/, ''): the last dot and what follows it
RemoveLastDotSuffix(s) ==
    IF lastIndexOf(s, ".") = 0 THEN s ELSE Upto(s, lastIndexOf(s, ".") - 1)

\* the catch block taking the extension from the synthetic name, which has
\* none, instead of from the URL
FallbackMetadata_ExtensionOfName(element, linkUrl, now) ==
    LET fallbackFilename == <<"d","o","c","u","m","e","n","t","-">> \o now
        extension        == extractExtension(fallbackFilename)
    IN  [filename        |-> slugifyFilename(fallbackFilename, now),
         filenameWithExt |-> slugifyFilename(fallbackFilename \o DotExt(extension), now),
         extension       |-> extension,
         estimatedSize   |-> estimateFileSize(element, extension),
         tooltip         |-> buildTooltip(extension, Null),
         fallback        |-> TRUE]

\* the catch block of extractLinkMetadata
FallbackMetadata(element, linkUrl, now) ==
    LET fallbackFilename == <<"d","o","c","u","m","e","n","t","-">> \o now
        extension        == extractExtension(linkUrl)
    IN  [filename        |-> slugifyFilename(fallbackFilename, now),
         filenameWithExt |-> slugifyFilename(fallbackFilename \o DotExt(extension), now),
         extension       |-> extension,
         estimatedSize   |-> estimateFileSize(element, extension),
         tooltip         |-> buildTooltip(extension, Null),
         fallback        |-> TRUE]

\* the return statement of the try block, from the filename on
MetadataOf(element, extension, slugifiedFilename) ==
    [filename        |-> RemoveLastDotSuffix(slugifiedFilename),
     filenameWithExt |-> RemoveLastDotSuffix(slugifiedFilename) \o DotExt(extension),
     extension       |-> extension,
     estimatedSize   |-> estimateFileSize(element, extension),
     tooltip         |-> buildTooltip(extension, estimateFileSize(element, extension)),
     fallback        |-> FALSE]

\* the try block once the URL is parsed: filename is the outcome of
\* extractFilename, which may have thrown
MetadataOfFilename(element, linkUrl, now, pathname, filename) ==
    IF ~filename.ok THEN FallbackMetadata(element, linkUrl, now)
    ELSE MetadataOf(element,
                    extractExtension(IF filename.value # <<>> THEN filename.value
                                     ELSE pathname),
                    slugifyFilename(filename.value, now))

\* the try block: urlObj is the outcome of new URL(linkUrl, location.href),
\* which may have thrown
MetadataOfUrl(element, linkUrl, now, urlObj) ==
    IF ~urlObj.ok THEN FallbackMetadata(element, linkUrl, now)
    ELSE MetadataOfFilename(element, linkUrl, now, urlObj.path,
                            extractFilename(urlObj.path, element, now))

\* ContentExtractor.extractLinkMetadata; `fallback` records which path
\* produced the record (it is no field of the JavaScript object)
extractLinkMetadata(element, linkUrl, now) ==
    MetadataOfUrl(element, linkUrl, now, ParseURL(linkUrl, LocationHref))

----------------------------------------------------------------------------
(* SpecSize: estimateFileSize applied to one element in its surroundings   *)

\* attributes from a set of <<name, value>> pairs
AttrsOf(pairs) ==
    [n \in {p[1] : p \in pairs} |-> (CHOOSE p \in pairs : p[1] = n)[2]]

TextNode(text) == [text |-> text, sizeNode |-> FALSE]
SizeNode(text) == [text |-> text, sizeNode |-> TRUE]
Level(before, after) == [before |-> before, after |-> after]

\* the ancestors above the parent: none; a grandparent with a size text; or
\* three more levels, of which only the outermost (the fourth ancestor) has one
OuterLevels ==
    {<<>>,
     <<Level(<<<<"7"," ","K","B">>>>, <<>>)>>,
     <<Level(<<>>, <<>>), Level(<<>>, <<>>), Level(<<<<"8"," ","K","B">>>>, <<>>)>>}

SizeElements ==
    {[attrs  |-> AttrsOf({<<"href", <<"a",".","p","d","f">>>>} \cup dataSize \cup title),
      nodes  |-> <<TextNode(own)>> \o span,
      anc    |-> <<Level(before, after)>> \o outer,
      region |-> "main"] :
        dataSize \in {{}, {<<"data-size", <<"a","b","c">>>>}, {<<"data-size", <<"0">>>>},
                      {<<"data-filesize", <<"4","2">>>>}},
        title    \in {{}, {<<"title", <<"9"," ","K","B">>>>}},
        own      \in {<<>>, <<"D","o","c">>, <<"5"," ","K","B">>, <<"0"," ","K","B"," ">>, <<"1","2"," ","B">>},
        span     \in {<<>>, <<SizeNode(<<"1",".","5"," ","M","B">>)>>},
        before   \in {<<>>, <<<<"2"," ","K","B">>>>},
        after    \in {<<>>, <<<<"1"," ","k","b">>>>, <<<<"0"," ","M","B">>>>},
        outer    \in OuterLevels}

InitSize ==
    /\ IdleExtract
    /\ IdlePopup
    /\ arg \in [element : SizeElements, extension : {pdf, <<"z","z","z">>}]
    /\ ret = <<>>

EstimateSize ==
    /\ Len(ret) = 0
    /\ ret' = <<estimateFileSize(arg.element, arg.extension)>>
    /\ UNCHANGED <<arg, extractVars, popupVars>>

NextSize == EstimateSize

SpecSize == InitSize /\ [][NextSize]_vars

\* a data attribute holds a number
AttrYields(element) == sizeAttr(element) # <<>> /\ ~parseInt(sizeAttr(element)).nan

\* The sources are tried in priority order and the first that yields a value
\* wins: a numeric data attribute decides; otherwise a lookup in the text of
\* the ancestors, the siblings, the element, its aria-label/title or its
\* size descendant decides if it yields a byte count and none before it does.
SizePriority ==
    Len(ret) = 1 =>
        LET e == arg.element
            lookups == TextSizes(e)
        IN  /\ AttrYields(e) => ret[1] = parseInt(sizeAttr(e)).value
            /\ ~AttrYields(e) =>
                  \A k \in 1..Len(lookups) :
                      (Truthy(lookups[k]) /\ \A j \in 1..(k - 1) : ~Truthy(lookups[j]))
                          => ret[1] = lookups[k]

NoSourceYields(element) ==
    /\ ~AttrYields(element)
    /\ \A k \in 1..Len(TextSizes(element)) : ~Truthy(TextSizes(element)[k])

\* C10 as stated: priority order, and with no source yielding a value the
\* estimated size is a static default byte count for the extension.
C10_DefaultByExtension ==
    /\ SizePriority
    /\ (Len(ret) = 1 /\ NoSourceYields(arg.element) => ret[1] # Null /\ ret[1] > 0)

\* C10 (amended): priority order, and with no source yielding a value the
\* estimated size is null; there is no table of defaults.
C10_NullWhenNoSource ==
    /\ SizePriority
    /\ (Len(ret) = 1 /\ NoSourceYields(arg.element) => ret[1] = Null)

\* the text of the parent starts with a sibling's "2 KB" and also holds the
\* element's own "5 KB": the parent lookup wins with 2048 bytes
C10_ParentBeforeOwnText ==
    /\ Len(ret) = 1
    /\ ~AttrYields(arg.element)
    /\ arg.element.anc[1].before = <<<<"2"," ","K","B">>>>
    /\ extractElementText(arg.element) = <<"5"," ","K","B">>
    /\ ret[1] = 2048

\* nothing yields a value (the only size text is beyond the third ancestor)
\* and the result is null
C10_NothingFound ==
    /\ Len(ret) = 1
    /\ NoSourceYields(arg.element)
    /\ Len(arg.element.anc) > MaxParentDepth
    /\ ret[1] = Null

----------------------------------------------------------------------------
(* ContentExtractor.extractDocumentLinks                                   *)

\* document.querySelectorAll(selector) throws a SyntaxError on this selector
InvalidSelectors == {"a[["}

\* every element of the model is an anchor; the attribute selectors match
\* the elements on which the attribute is present
SelectorMatches(selector, element) ==
    CASE selector = "a"                -> TRUE
      [] selector = "a[href]"          -> "href" \in DOMAIN element.attrs
      [] selector = "a[data-href]"     -> "data-href" \in DOMAIN element.attrs
      [] selector = "a[data-download]" -> "data-download" \in DOMAIN element.attrs
      [] OTHER                         -> FALSE

\* the positions, in document order, of the elements the selector matches
querySelectorAll(document, selector) ==
    SelectSeq([i \in 1..Len(document) |-> i], LAMBDA i : SelectorMatches(selector, document[i]))

\* the links collected in an array: links.push(link)
MapSet_Push(links, link) == Append(links, link)

\* links.set that leaves an entry already stored under the URL as it is
MapSet_KeepFirst(links, link) ==
    IF \E i \in 1..Len(links) : links[i].url = link.url
    THEN links
    ELSE Append(links, link)

\* links.set(url, link) on the insertion-ordered Map, kept as the sequence of
\* its values: an existing key keeps its place and takes the new value
MapSet(links, link) ==
    IF \E i \in 1..Len(links) : links[i].url = link.url
    THEN [i \in 1..Len(links) |-> IF links[i].url = link.url THEN link ELSE links[i]]
    ELSE Append(links, link)

\* the link target the callback reads: href || data-href || data-download
TargetOf(element) ==
    FirstTruthy(<<getAttribute(element, "href"), getAttribute(element, "data-href"),
                  getAttribute(element, "data-download")>>)

\* the title of the link
TitleOf(element, settings) ==
    IF settings.innerContent
    THEN FirstTruthy(<<extractElementText(element),
                       getAttribute(element, "title"),
                       getAttribute(element, "aria-label"),
                       getAttribute(element, "data-title")>>)
    ELSE <<>>

\* the object stored in the map; `element` is the position of the element in
\* the document and stands for the excerpt of its outerHTML
MakeLink(finalUrl, title, metadata, idx, pageUrl) ==
    [url             |-> finalUrl,
     title           |-> trim(title),
     filename        |-> metadata.filename,
     filenameWithExt |-> metadata.filenameWithExt,
     extension       |-> metadata.extension,
     estimatedSize   |-> metadata.estimatedSize,
     tooltip         |-> metadata.tooltip,
     element         |-> idx,
     pageUrl         |-> pageUrl]

\* the callback from the extension test on
ProcessUrl(links, element, idx, finalUrl, settings, pageUrl, now) ==
    IF extPatternTest(settings.fileExtensions, finalUrl)
    THEN MapSet(links, MakeLink(finalUrl, TitleOf(element, settings),
                                extractLinkMetadata(element, finalUrl, now),
                                idx, pageUrl))
    ELSE links

\* the callback with a skip test for the missing target only
ProcessTarget_NoSkip(links, element, idx, href, settings, pageUrl, now) ==
    IF href = <<>>
    THEN links
    ELSE ProcessUrl(links, element, idx,
                    IF settings.makeAbsolute THEN makeAbsoluteUrl(trim(href), pageUrl)
                    ELSE trim(href),
                    settings, pageUrl, now)

\* the callback from the test of the target on
ProcessTarget(links, element, idx, href, settings, pageUrl, now) ==
    IF href = <<>> \/ startsWith(href, <<"#">>) \/ startsWith(href, <<"j","a","v","a","s","c","r","i","p","t",":">>)
    THEN links
    ELSE ProcessUrl(links, element, idx,
                    IF settings.makeAbsolute THEN makeAbsoluteUrl(trim(href), pageUrl)
                    ELSE trim(href),
                    settings, pageUrl, now)

\* the callback of elements.forEach for the element at position idx
ProcessElement(links, document, idx, settings, pageUrl, now) ==
    ProcessTarget(links, document[idx], idx, TargetOf(document[idx]),
                  settings, pageUrl, now)

RECURSIVE ProcessElements(_, _, _, _, _, _)
ProcessElements(links, document, idxs, settings, pageUrl, now) ==
    IF idxs = <<>> THEN links
    ELSE ProcessElements(ProcessElement(links, document, Head(idxs), settings, pageUrl, now),
                         document, Tail(idxs), settings, pageUrl, now)

\* the callback of linkSelectors.forEach: the try block, and the catch block
\* that logs the error of querySelectorAll and leaves the map as it is
ProcessSelector(links, document, selector, settings, pageUrl, now) ==
    IF selector \in InvalidSelectors THEN links
    ELSE ProcessElements(links, document, querySelectorAll(document, selector),
                         settings, pageUrl, now)

\* linkSelectors.forEach inside one try block: the first failing selector
\* ends the loop
RECURSIVE ProcessSelectors_StopAtFailure(_, _, _, _, _, _)
ProcessSelectors_StopAtFailure(links, document, selectors, settings, pageUrl, now) ==
    IF selectors = <<>> \/ Head(selectors) \in InvalidSelectors THEN links
    ELSE ProcessSelectors_StopAtFailure(
             ProcessSelector(links, document, Head(selectors), settings, pageUrl, now),
             document, Tail(selectors), settings, pageUrl, now)

RECURSIVE ProcessSelectors(_, _, _, _, _, _)
ProcessSelectors(links, document, selectors, settings, pageUrl, now) ==
    IF selectors = <<>> THEN links
    ELSE ProcessSelectors(
             ProcessSelector(links, document, Head(selectors), settings, pageUrl, now),
             document, Tail(selectors), settings, pageUrl, now)

\* extractDocumentLinks without the try block around querySelectorAll: an
\* invalid selector rejects the promise
extractDocumentLinks_SelectorFatal(document, req, now) ==
    IF ~req.hasSettings
    THEN [state |-> "rejected", error |-> "TypeError"]
    ELSE IF \/ RegExpThrows(req.settings.fileExtensions)
            \/ \E s \in 1..Len(req.settings.linkSelectors) :
                   req.settings.linkSelectors[s] \in InvalidSelectors
    THEN [state |-> "rejected", error |-> "SyntaxError"]
    ELSE [state |-> "fulfilled",
          value |-> [success   |-> TRUE,
                     links     |-> ProcessSelectors(<<>>, document, req.settings.linkSelectors,
                                                    req.settings, req.pageUrl, now),
                     pageUrl   |-> req.pageUrl,
                     timestamp |-> now]]

\* the promise extractDocumentLinks returns.  It is rejected when the
\* destructuring of a missing settings object or the RegExp constructor
\* throws: both are outside the per-selector try block.
extractDocumentLinks(document, req, now) ==
    IF ~req.hasSettings
    THEN [state |-> "rejected", error |-> "TypeError"]
    ELSE IF RegExpThrows(req.settings.fileExtensions)
    THEN [state |-> "rejected", error |-> "SyntaxError"]
    ELSE [state |-> "fulfilled",
          value |-> [success   |-> TRUE,
                     links     |-> ProcessSelectors(<<>>, document, req.settings.linkSelectors,
                                                    req.settings, req.pageUrl, now),
                     pageUrl   |-> req.pageUrl,
                     timestamp |-> now]]

----------------------------------------------------------------------------
(* Spec: the content script handling messages on a page                    *)

\* most elements of the page
MaxElements == 2

Anchor(pairs, text, region) ==
    [attrs  |-> AttrsOf(pairs),
     nodes  |-> <<TextNode(text)>>,
     anc    |-> <<Level(<<>>, <<>>)>>,
     region |-> region]

\* the anchors a page is made of
PageElements ==
    {Anchor({<<"href", <<"a",".","p","d","f">>>>}, <<"D","o","c">>, "main"),
     Anchor({<<"href", <<"a",".","p","d","f","?","v","=","2">>>>}, <<"N","e","w">>, "main"),
     Anchor({<<"href", <<"a",".","p","d","f">>>>, <<"data-size", <<"4","2">>>>}, <<"F","o","o","t">>, "footer"),
     Anchor({<<"href", <<"#","a",".","p","d","f">>>>}, <<"F","r","a","g">>, "main"),
     Anchor({<<"href", <<" ","#","a",".","p","d","f">>>>}, <<"S","p">>, "main"),
     Anchor({<<"href", <<"j","a","v","a","s","c","r","i","p","t",":","a",".","p","d","f">>>>}, <<"J","s">>, "main"),
     Anchor({<<"name", <<"t","o","p">>>>}, <<"T","o","p">>, "header"),
     Anchor({<<"data-href", <<"b",".","d","o","c">>>>}, <<"S","h","e","e","t"," ","5"," ","K","B">>, "main"),
     Anchor({<<"href", <<>>>>, <<"data-download", <<"d",".","P","D","F">>>>}, <<>>, "main"),
     Anchor({<<"href", <<"/","/","[","/","c",".","p","d","f">>>>, <<"data-size", <<"7">>>>}, <<"B","a","d">>, "main"),
     Anchor({<<"href", <<"c","%",".","p","d","f">>>>}, <<"P","c","t">>, "header"),
     Anchor({<<"href", <<"r",".","p","d","f">>>>, <<"data-filename", <<"R","e","p","o","r","t",".","P","D","F">>>>}, <<"R">>, "main")}

Pages == StringsUpTo(PageElements, MaxElements)

ExtensionLists == {<<pdf>>, <<pdf, doc>>, <<pdf, <<"*">>>>}
SelectorLists ==
    {<<"a[href]">>, <<"a[href]", "a[[", "a[data-href]">>, <<"a[[", "a">>,
     <<"a[data-download]", "a[href]">>}

Flags == [innerContent : BOOLEAN, makeAbsolute : BOOLEAN,
          ignoreHeaderFooterFiles : BOOLEAN]

MakeSettings(exts, selectors, flags) ==
    [fileExtensions |-> exts, linkSelectors |-> selectors,
     innerContent |-> flags.innerContent, makeAbsolute |-> flags.makeAbsolute,
     ignoreHeaderFooterFiles |-> flags.ignoreHeaderFooterFiles]

\* the settings of the requests: every combination of the flags with one
\* pair of lists, and every list of extensions and every list of selectors
\* with one combination of the flags
SettingsSet ==
    {MakeSettings(<<pdf, doc>>, <<"a[href]", "a[[", "a[data-href]">>, f) : f \in Flags}
    \cup {MakeSettings(e, <<"a[[", "a">>,
                       [innerContent |-> TRUE, makeAbsolute |-> FALSE,
                        ignoreHeaderFooterFiles |-> FALSE]) : e \in ExtensionLists}
    \cup {MakeSettings(<<pdf>>, sel,
                       [innerContent |-> TRUE, makeAbsolute |-> TRUE,
                        ignoreHeaderFooterFiles |-> TRUE]) : sel \in SelectorLists}

NoSettings ==
    [fileExtensions |-> <<>>, linkSelectors |-> <<>>, innerContent |-> FALSE,
     makeAbsolute |-> FALSE, ignoreHeaderFooterFiles |-> FALSE]

\* the messages the listener may receive: extractLinks with settings,
\* extractLinks without a settings object, and a message of another action
Requests ==
    [action : {"extractLinks"}, hasSettings : {TRUE}, settings : SettingsSet,
     pageUrl : {LocationHref}]
    \cup {[action |-> "extractLinks", hasSettings |-> FALSE, settings |-> NoSettings,
           pageUrl |-> LocationHref],
          [action |-> "ping", hasSettings |-> FALSE, settings |-> NoSettings,
           pageUrl |-> LocationHref]}

Init ==
    /\ page \in Pages
    /\ request = [action |-> "none"]
    /\ pc = "idle"
    /\ settled = [state |-> "none"]
    /\ responses = <<>>
    /\ IdlePure
    /\ IdlePopup

\* the onMessage listener on an extractLinks message: extractDocumentLinks
\* runs to its end (it awaits nothing) and the listener returns true
ReceiveExtractLinks ==
    /\ pc = "idle"
    /\ \E req \in Requests, now \in Clock :
          /\ req.action = "extractLinks"
          /\ request' = req
          /\ settled' = extractDocumentLinks(page, req, now)
    /\ pc' = "settled"
    /\ responses' = <<>>
    /\ UNCHANGED <<page, pureVars, popupVars>>

\* the listener on any other message: it returns undefined and never responds
ReceiveOther ==
    /\ pc = "idle"
    /\ \E req \in Requests :
          /\ req.action # "extractLinks"
          /\ request' = req
    /\ pc' = "idle"
    /\ settled' = [state |-> "none"]
    /\ responses' = <<>>
    /\ UNCHANGED <<page, pureVars, popupVars>>

\* .then(result => sendResponse(result))
ThenSendResponse ==
    /\ pc = "settled"
    /\ settled.state = "fulfilled"
    /\ responses' = Append(responses, settled.value)
    /\ pc' = "done"
    /\ UNCHANGED <<page, request, settled, pureVars, popupVars>>

\* .catch(error => sendResponse({ success: false, error: error.message }))
CatchSendResponse ==
    /\ pc = "settled"
    /\ settled.state = "rejected"
    /\ responses' = Append(responses, [success |-> FALSE, error |-> settled.error])
    /\ pc' = "done"
    /\ UNCHANGED <<page, request, settled, pureVars, popupVars>>

\* the message channel closes once the response is sent; the listener stays
\* registered for the next message
CloseChannel ==
    /\ pc = "done"
    /\ pc' = "idle"
    /\ request' = [action |-> "none"]
    /\ settled' = [state |-> "none"]
    /\ responses' = <<>>
    /\ UNCHANGED <<page, pureVars, popupVars>>

Next ==
    \/ ReceiveExtractLinks
    \/ ReceiveOther
    \/ ThenSendResponse
    \/ CatchSendResponse
    \/ CloseChannel

Spec == Init /\ [][Next]_vars

----------------------------------------------------------------------------
(* Properties of the extraction                                            *)

\* the extraction has answered with the success shape
Succeeded == pc = "done" /\ Len(responses) = 1 /\ responses[1].success

\* the exceptions that escape extractDocumentLinks
EscapingException(req) ==
    ~req.hasSettings \/ RegExpThrows(req.settings.fileExtensions)

\* the URL the callback derives from the target of an element
FinalUrlOf(element, settings, pageUrl) ==
    IF settings.makeAbsolute THEN makeAbsoluteUrl(trim(TargetOf(element)), pageUrl)
    ELSE trim(TargetOf(element))

Skipped(element) ==
    \/ TargetOf(element) = <<>>
    \/ startsWith(TargetOf(element), <<"#">>)
    \/ startsWith(TargetOf(element), <<"j","a","v","a","s","c","r","i","p","t",":">>)

\* the element is a document link for the settings of the request
DocumentLink(element, req) ==
    /\ ~Skipped(element)
    /\ extPatternTest(req.settings.fileExtensions,
                      FinalUrlOf(element, req.settings, req.pageUrl))

\* every document link matched by a valid selector of the request has its
\* URL in the result
AllMatchedPresent ==
    \A s \in 1..Len(request.settings.linkSelectors), i \in 1..Len(page) :
        (/\ request.settings.linkSelectors[s] \notin InvalidSelectors
         /\ SelectorMatches(request.settings.linkSelectors[s], page[i])
         /\ DocumentLink(page[i], request))
        => \E k \in 1..Len(responses[1].links) :
               responses[1].links[k].url
                   = FinalUrlOf(page[i], request.settings, request.pageUrl)

\* C1: every extractLinks message receives exactly one response, of the
\* success shape or of the failure shape; once the extraction has settled
\* the response is pending and can be sent; the failure shape is sent exactly
\* when an exception escapes the whole extraction (missing settings, a
\* pattern that does not compile), never for an invalid selector or a
\* malformed element.
C1_ExactlyOneResponse ==
    /\ Len(responses) <= 1
    /\ pc = "settled" =>
          /\ responses = <<>>
          /\ ENABLED (ThenSendResponse \/ CatchSendResponse)
    /\ pc = "done" =>
          /\ Len(responses) = 1
          /\ request.action = "extractLinks"
          /\ \/ /\ responses[1].success
                /\ DOMAIN responses[1] = {"success", "links", "pageUrl", "timestamp"}
             \/ /\ ~responses[1].success
                /\ DOMAIN responses[1] = {"success", "error"}
          /\ ~responses[1].success <=> EscapingException(request)

\* a success response with links although one selector is invalid and the
\* URL of one element does not parse
C1_SuccessDespiteFailures ==
    /\ Succeeded
    /\ \E s \in 1..Len(request.settings.linkSelectors) :
           request.settings.linkSelectors[s] \in InvalidSelectors
    /\ \E i \in 1..Len(page) : getAttribute(page[i], "href") = <<"/","/","[","/","c",".","p","d","f">>
    /\ Len(responses[1].links) = 2

\* the URL with its fragment and its query removed
NormalizedUrl(url) == Before(Before(url, "#"), "?")

\* C2 as stated: no two links of a result share a normalized URL.
C2_UniqueNormalizedUrl ==
    Succeeded =>
        \A j, k \in 1..Len(responses[1].links) :
            j # k => NormalizedUrl(responses[1].links[j].url)
                        # NormalizedUrl(responses[1].links[k].url)

\* C2 (amended): no two links of a result share a URL; two matched elements
\* with the same final URL give one entry, and it holds the data of the one
\* matched last.
C2_UniqueUrl ==
    Succeeded =>
        /\ \A j, k \in 1..Len(responses[1].links) :
               j # k => responses[1].links[j].url # responses[1].links[k].url
        /\ \A k \in 1..Len(responses[1].links) :
               /\ responses[1].links[k].element \in 1..Len(page)
               /\ responses[1].links[k].url
                      = FinalUrlOf(page[responses[1].links[k].element],
                                   request.settings, request.pageUrl)

\* two anchors with the same target give one entry, the second one's
C2_SameUrlOneEntry ==
    /\ Succeeded
    /\ Len(page) = 2
    /\ page[1] # page[2]
    /\ TargetOf(page[1]) = <<"a",".","p","d","f">>
    /\ TargetOf(page[2]) = <<"a",".","p","d","f">>
    /\ Len(responses[1].links) = 1
    /\ responses[1].links[1].element = 2
    /\ responses[1].links[1].title = <<"F","o","o","t">>

C5_SelectorFailureCaught ==
    (pc = "done" /\ ~EscapingException(request)) =>
        /\ Succeeded
        /\ AllMatchedPresent

\* an invalid selector between two valid ones: the link matched by the
\* selector before it and the link matched by the selector after it are both
\* in the result
C5_LinksAroundFailure ==
    /\ Succeeded
    /\ request.settings.linkSelectors = <<"a[href]", "a[[", "a[data-href]">>
    /\ \E j, k \in 1..Len(responses[1].links) :
           /\ responses[1].links[j].url = <<"a",".","p","d","f">>
           /\ responses[1].links[k].url = <<"b",".","d","o","c">>

\* the filename derivation of extractLinkMetadata fails for the element
MetadataFails(element, url, now) ==
    \/ ~ParseURL(url, LocationHref).ok
    \/ ~extractFilename(ParseURL(url, LocationHref).path, element, now).ok

\* C7: when the filename derivation fails (the URL does not parse, a path
\* segment does not decode) the link gets the synthetic name
\* document-{timestamp} and the extension of the original URL, and the other
\* document links of the page are still in the result.
C7_FallbackMetadata ==
    Succeeded =>
        /\ \A k \in 1..Len(responses[1].links) :
               MetadataFails(page[responses[1].links[k].element],
                             responses[1].links[k].url, responses[1].timestamp)
               => /\ responses[1].links[k].filename
                         = <<"d","o","c","u","m","e","n","t","-">> \o responses[1].timestamp
                  /\ responses[1].links[k].extension
                         = extractExtension(responses[1].links[k].url)
        /\ AllMatchedPresent

\* an element whose path does not decode, followed by a sound one: the first
\* gets the synthetic name and the extension pdf, the second is in the result
C7_UndecodableThenSound ==
    /\ Succeeded
    /\ Len(page) = 2
    /\ TargetOf(page[1]) = <<"c","%",".","p","d","f">>
    /\ Len(responses[1].links) = 2
    /\ responses[1].links[1].filename = <<"d","o","c","u","m","e","n","t","-">> \o responses[1].timestamp
    /\ responses[1].links[1].extension = pdf
    /\ responses[1].links[2].filename = <<"a">>

\* C9: with ignoreHeaderFooterFiles enabled, no link of the result comes
\* from an anchor inside a header or footer region; with the flag disabled
\* such an anchor is included.
C9_HeaderFooterExclusion ==
    Succeeded =>
        IF request.settings.ignoreHeaderFooterFiles
        THEN \A k \in 1..Len(responses[1].links) :
                 page[responses[1].links[k].element].region = "main"
        ELSE AllMatchedPresent

----------------------------------------------------------------------------
(* SpecDownload: the popup downloading the extracted links                 *)

\* most links of an extracted list
MaxLinks == 2
\* most runs of downloadFiles started
MaxBatches == 2

\* the url and filename of the links an extraction may have returned; the
\* second has an empty filename
LinkUrls == <<"a.pdf", "b.doc", "c.pdf", "d.pdf">>
LinkFilenames == <<"a", "", "c", "d">>
ExtractedLink(i) == [url |-> LinkUrls[i], filename |-> LinkFilenames[i]]

\* the lists of a success response: the first links in order, or all of them
\* in reverse order
LinkLists ==
    {[i \in 1..n |-> ExtractedLink(i)] : n \in 0..MaxLinks}
    \cup {[i \in 1..MaxLinks |-> ExtractedLink(MaxLinks + 1 - i)]}

\* the argument of chrome.downloads.download and the state of the promise
\* it returned
DownloadRequest(link) ==
    [url      |-> link.url,
     filename |-> IF link.filename # "" THEN link.filename ELSE "undefined",
     saveAs   |-> FALSE,
     state    |-> "pending"]

NoReport == [shown |-> FALSE]

InitDownload ==
    /\ IdleExtract
    /\ IdlePure
    /\ IdlePopup

\* extractLinks when the success response of the content script arrives:
\* this.extractedLinks = response.links
ExtractLinksResponse ==
    /\ \E links \in LinkLists : extractedLinks' = links
    /\ UNCHANGED <<batches, attemptVars, extractVars, pureVars>>

\* a click on the download button: downloadFiles up to its first await.  It
\* returns at once on an empty list; otherwise it counts from 0, takes the
\* length of the list and issues the request for the first link.  The loop
\* iterates the array the property held at the click.
DownloadFiles ==
    /\ Len(batches) < MaxBatches
    /\ IF extractedLinks = <<>>
       THEN UNCHANGED batches
       ELSE batches' = Append(batches,
                              [links      |-> extractedLinks,
                               total      |-> Len(extractedLinks),
                               downloaded |-> 0,
                               requests   |-> <<DownloadRequest(extractedLinks[1])>>,
                               report     |-> NoReport])
    /\ UNCHANGED <<extractedLinks, attemptVars, extractVars, pureVars>>

\* the last request of the batch is awaited
Awaiting(batch) ==
    /\ ~batch.report.shown
    /\ batch.requests[Len(batch.requests)].state = "pending"

\* the loop after the awaited request has settled with `state` and the count
\* is `downloaded`: the request for the next link, or after the last link
\* the status Download complete! {downloaded}/{total}
ContinueLoop(batch, state, downloaded) ==
    LET n        == Len(batch.requests)
        requests == [batch.requests EXCEPT ![n].state = state]
    IN  IF n < Len(batch.links)
        THEN [batch EXCEPT !.downloaded = downloaded,
                           !.requests = Append(requests, DownloadRequest(batch.links[n + 1]))]
        ELSE [batch EXCEPT !.downloaded = downloaded,
                           !.requests = requests,
                           !.report = [shown |-> TRUE, downloaded |-> downloaded,
                                       total |-> batch.total]]

\* the awaited download resolves: downloaded++ and the loop goes on
DownloadResolved ==
    /\ \E b \in 1..Len(batches) :
          /\ Awaiting(batches[b])
          /\ batches' = [batches EXCEPT ![b] =
                            ContinueLoop(batches[b], "complete", batches[b].downloaded + 1)]
    /\ UNCHANGED <<extractedLinks, attemptVars, extractVars, pureVars>>

\* the catch block ending the whole run at the first failure
DownloadRejected_EndsBatch ==
    /\ \E b \in 1..Len(batches) :
          /\ Awaiting(batches[b])
          /\ batches' = [batches EXCEPT ![b] =
                            [batches[b] EXCEPT
                                !.requests[Len(batches[b].requests)].state = "failed",
                                !.report = [shown |-> TRUE,
                                            downloaded |-> batches[b].downloaded,
                                            total |-> batches[b].total]]]
    /\ UNCHANGED <<extractedLinks, attemptVars, extractVars, pureVars>>

\* the awaited download is rejected: the catch block of the loop body logs
\* the error and the loop goes on
DownloadRejected ==
    /\ \E b \in 1..Len(batches) :
          /\ Awaiting(batches[b])
          /\ batches' = [batches EXCEPT ![b] =
                            ContinueLoop(batches[b], "failed", batches[b].downloaded)]
    /\ UNCHANGED <<extractedLinks, attemptVars, extractVars, pureVars>>

NextDownload ==
    \/ ExtractLinksResponse
    \/ DownloadFiles
    \/ DownloadResolved
    \/ DownloadRejected

SpecDownload == InitDownload /\ [][NextDownload]_vars

\* the requests of the batch that resolved
Resolved(batch) ==
    {i \in 1..Len(batch.requests) : batch.requests[i].state = "complete"}

\* C6: a bulk download of a non-empty list issues one request per link, in
\* list order, the next one only once the one before has resolved or failed;
\* a failed request does not end the batch; the count reported at the end is
\* the number of requests that resolved.
C6_SequentialDownloads ==
    \A b \in 1..Len(batches) :
        /\ batches[b].links # <<>>
        /\ Len(batches[b].requests) \in 1..Len(batches[b].links)
        /\ \A i \in 1..Len(batches[b].requests) :
               /\ batches[b].requests[i].url = batches[b].links[i].url
               /\ i < Len(batches[b].requests) => batches[b].requests[i].state # "pending"
        /\ ~batches[b].report.shown => Awaiting(batches[b])
        /\ batches[b].report.shown =>
               /\ Len(batches[b].requests) = Len(batches[b].links)
               /\ \A i \in 1..Len(batches[b].requests) :
                      batches[b].requests[i].state # "pending"
               /\ batches[b].report.downloaded = Cardinality(Resolved(batches[b]))
               /\ batches[b].report.total = Len(batches[b].links)

\* a batch of two links whose first request failed and whose second
\* resolved: it reports 1 of 2
C6_FailureThenSuccess ==
    \E b \in 1..Len(batches) :
        /\ Len(batches[b].links) = 2
        /\ batches[b].report.shown
        /\ batches[b].requests[1].state = "failed"
        /\ batches[b].requests[2].state = "complete"
        /\ batches[b].report.downloaded = 1
        /\ batches[b].report.total = 2

----------------------------------------------------------------------------
(* SpecCsv: the CSV export of the popup                                    *)

\* most links of an exported list
MaxCsvRows == 2

\* the header row of createExcelData
CsvHeaders ==
    <<<<"o","r","i","g","i","n","a","l","_","u","r","l">>, <<"t","i","t","l","e">>, <<"s","l","u","g","i","f","i","e","d","_","f","i","l","e","n","a","m","e">>, <<"m","e","d","i","a","_","c","o","n","s","t","a","n","t">>,
      <<"f","i","l","e","_","s","i","z","e","_","h","u","m","a","n">>, <<"t","o","o","l","t","i","p">>, <<"e","x","t","e","n","s","i","o","n">>, <<"s","t","a","t","u","s">>>>

\* the row of a link
CsvRow(link, settings) ==
    <<link.url,
      link.title,
      link.filename,
      settings.mediaPrefixXlsx \o link.filename,
      humanFileSize(link.estimatedSize),
      link.tooltip,
      link.extension,
      <<"e","x","t","r","a","c","t","e","d">>>>

\* DocumentExtractor.createExcelData: [headers, ...rows].map(row =>
\* row.join(',')).join('\n')
createExcelData(links, settings) ==
    join([r \in 1..(Len(links) + 1) |->
              join(IF r = 1 THEN CsvHeaders ELSE CsvRow(links[r - 1], settings), <<",">>)],
         <<"\n">>)

\* the links exported: a URL with or without a comma, a title that is
\* empty, plain, or holds a comma, a double quote or a newline, a size that
\* is known or not, and the tooltip the content script builds
CsvUrls == {<<"a",".","p","d","f">>, <<"a",",","b",".","p","d","f">>}
CsvTitles == {<<>>, <<"D","o","c">>, <<"a",",","b">>, <<"a", "\"", "b">>, <<"a", "\n", "b">>}
CsvLinks ==
    {[url           |-> u,
      title         |-> t,
      filename      |-> <<"a">>,
      extension     |-> pdf,
      estimatedSize |-> size,
      tooltip       |-> buildTooltip(pdf, size)] :
         u \in CsvUrls, t \in CsvTitles, size \in {Null, 2048}}

InitCsv ==
    /\ IdleExtract
    /\ IdlePopup
    /\ arg \in [links : StringsUpTo(CsvLinks, MaxCsvRows) \ {<<>>},
                settings : [mediaPrefixXlsx : {<<>>, <<"m","/">>}]]
    /\ ret = <<>>

\* exportData building the CSV text of a non-empty list
CreateExcelData ==
    /\ Len(ret) = 0
    /\ ret' = <<createExcelData(arg.links, arg.settings)>>
    /\ UNCHANGED <<arg, extractVars, popupVars>>

NextCsv == CreateExcelData

SpecCsv == InitCsv /\ [][NextCsv]_vars

\* a value wrapped in double quotes, every double quote inside it doubled
QuoteValue(value) ==
    <<"\"">>
    \o join([i \in 1..Len(value) |->
                 IF value[i] = "\"" THEN <<"\"", "\"">> ELSE <<value[i]>>], <<>>)
    \o <<"\"">>

QuotedCsv(links, settings) ==
    join([r \in 1..(Len(links) + 1) |->
              join([c \in 1..Len(CsvHeaders) |->
                        QuoteValue((IF r = 1 THEN CsvHeaders
                                    ELSE CsvRow(links[r - 1], settings))[c])],
                   <<",">>)],
         <<"\n">>)

\* the number of fields of each record of a CSV text: a field that starts
\* with a double quote runs to its closing quote, a doubled quote inside it
\* standing for one quote; a comma outside quotes ends a field and a
\* newline outside quotes ends a record
RECURSIVE CsvFields(_, _, _, _, _, _)
CsvFields(s, i, quoted, start, n, records) ==
    IF i > Len(s) THEN Append(records, n)
    ELSE IF quoted
    THEN IF s[i] # "\"" THEN CsvFields(s, i + 1, TRUE, FALSE, n, records)
         ELSE IF i < Len(s) /\ s[i + 1] = "\""
         THEN CsvFields(s, i + 2, TRUE, FALSE, n, records)
         ELSE CsvFields(s, i + 1, FALSE, FALSE, n, records)
    ELSE IF s[i] = "," THEN CsvFields(s, i + 1, FALSE, TRUE, n + 1, records)
    ELSE IF s[i] = "\n" THEN CsvFields(s, i + 1, FALSE, TRUE, 1, Append(records, n))
    ELSE IF s[i] = "\"" /\ start THEN CsvFields(s, i + 1, TRUE, FALSE, n, records)
    ELSE CsvFields(s, i + 1, FALSE, FALSE, n, records)

\* C11: in the CSV export every value of every row is wrapped in double
\* quotes with the double quotes inside it doubled, so the text has one
\* record per row and every record has the eight columns of the header,
\* whatever commas, quotes or newlines the values hold.
C11_QuotedValues ==
    Len(ret) = 1 =>
        /\ ret[1] = QuotedCsv(arg.links, arg.settings)
        /\ CsvFields(ret[1], 1, FALSE, TRUE, 1, <<>>)
               = [r \in 1..(Len(arg.links) + 1) |-> Len(CsvHeaders)]

----------------------------------------------------------------------------
(* SpecSources: pages whose anchors share a URL, or take their filename    *)
(* from the element text or from a data-filename attribute                 *)

SourceElements ==
    {Anchor({<<"href", <<"a",".","p","d","f">>>>}, <<"D","o","c">>, "main"),
     Anchor({<<"href", <<"a",".","p","d","f">>>>, <<"data-size", <<"4","2">>>>}, <<"F","o","o","t">>, "footer"),
     Anchor({<<"data-href", <<"a",".","p","d","f">>>>}, <<"A","l","t"," ","3"," ","K","B">>, "main"),
     Anchor({<<"href", <<"x","?","f","=","a",".","p","d","f">>>>}, <<"Q">>, "main"),
     Anchor({<<"href", <<"r",".","p","d","f">>>>, <<"data-filename", <<"n","o","t","e","s">>>>}, <<"R">>, "main")}

InitSources ==
    /\ page \in StringsUpTo(SourceElements, MaxElements)
    /\ request = [action |-> "none"]
    /\ pc = "idle"
    /\ settled = [state |-> "none"]
    /\ responses = <<>>
    /\ IdlePure
    /\ IdlePopup

SpecSources == InitSources /\ [][Next]_vars

\* the matches of the extraction that give the URL: <<s, i>> when the valid
\* selector at position s matches the element at position i, a document
\* link with this final URL
MatchesOf(url) ==
    {c \in (1..Len(request.settings.linkSelectors)) \X (1..Len(page)) :
        /\ request.settings.linkSelectors[c[1]] \notin InvalidSelectors
        /\ SelectorMatches(request.settings.linkSelectors[c[1]], page[c[2]])
        /\ DocumentLink(page[c[2]], request)
        /\ FinalUrlOf(page[c[2]], request.settings, request.pageUrl) = url}

\* the selectors are processed in the order of the list and the elements of
\* a selector in document order
ProcessedAfter(c, d) == c[1] > d[1] \/ (c[1] = d[1] /\ c[2] > d[2])

\* the position of the element processed last among the matches
LastMatch(url) ==
    (CHOOSE c \in MatchesOf(url) :
         \A d \in MatchesOf(url) : d = c \/ ProcessedAfter(c, d))[2]

\* the link carries the position, the title and the metadata given
CarriesDataOf(link, idx, title, meta) ==
    /\ link.element = idx
    /\ link.title = title
    /\ link.filename = meta.filename
    /\ link.filenameWithExt = meta.filenameWithExt
    /\ link.estimatedSize = meta.estimatedSize
    /\ link.tooltip = meta.tooltip

\* the link carries the data of the element at position idx
CarriesDataOfElement(link, idx) ==
    CarriesDataOf(link, idx, trim(TitleOf(page[idx], request.settings)),
                  extractLinkMetadata(page[idx], link.url, responses[1].timestamp))

\* C12: when several matched elements give the same URL, the entry of the
\* result carries the title, filename, size and tooltip of the element
\* processed last.
C12_LastMatchWins ==
    Succeeded =>
        \A k \in 1..Len(responses[1].links) :
            /\ MatchesOf(responses[1].links[k].url) # {}
            /\ CarriesDataOfElement(responses[1].links[k],
                                    LastMatch(responses[1].links[k].url))

\* an anchor with data-href before an anchor with href to the same URL, and
\* the selector a[data-href] after a[href]: the entry is that of the first
\* anchor of the document, which was processed last
C12_LaterSelectorOverwrites ==
    /\ Succeeded
    /\ request.settings.linkSelectors = <<"a[href]", "a[[", "a[data-href]">>
    /\ Len(page) = 2
    /\ getAttribute(page[1], "data-href") = <<"a",".","p","d","f">>
    /\ getAttribute(page[2], "href") = <<"a",".","p","d","f">>
    /\ Len(responses[1].links) = 1
    /\ responses[1].links[1].element = 1
    /\ responses[1].links[1].title = <<"A","l","t"," ","3"," ","K","B">>
    /\ responses[1].links[1].estimatedSize = 3072

----------------------------------------------------------------------------
(* Targets that do not resolve, and the size shown in the tooltip          *)

\* new URL(target, pageUrl) throws for the trimmed target of the element
Unresolvable(element, pageUrl) == ~ParseURL(trim(TargetOf(element)), pageUrl).ok

\* C13 as stated: with makeAbsolute enabled no link of the result comes
\* from an element whose target does not resolve against the page URL.
C13_UnresolvableSkipped ==
    (Succeeded /\ request.settings.makeAbsolute) =>
        \A k \in 1..Len(responses[1].links) :
            ~Unresolvable(page[responses[1].links[k].element], request.pageUrl)

\* C13 (amended): with makeAbsolute enabled an element whose target does
\* not resolve is not skipped: its trimmed target is kept as the URL, and
\* when that passes the extension filter the element gives a link with this
\* URL; the other document links are in the result as well.
C13_UnresolvableKept ==
    (Succeeded /\ request.settings.makeAbsolute) =>
        /\ \A s \in 1..Len(request.settings.linkSelectors), i \in 1..Len(page) :
               (/\ request.settings.linkSelectors[s] \notin InvalidSelectors
                /\ SelectorMatches(request.settings.linkSelectors[s], page[i])
                /\ ~Skipped(page[i])
                /\ Unresolvable(page[i], request.pageUrl)
                /\ extPatternTest(request.settings.fileExtensions, trim(TargetOf(page[i]))))
               => \E k \in 1..Len(responses[1].links) :
                      responses[1].links[k].url = trim(TargetOf(page[i]))
        /\ AllMatchedPresent

\* a target that does not resolve, then one that does: the first link keeps
\* the target as its URL, the second has the absolute URL
C13_KeptBesideResolved ==
    /\ Succeeded
    /\ request.settings.makeAbsolute
    /\ Len(page) = 2
    /\ Len(responses[1].links) = 2
    /\ responses[1].links[1].url = <<"/","/","[","/","c",".","p","d","f">>
    /\ responses[1].links[2].url = <<"h","t","t","p","s",":","/","/","e",".","c","o","/","d","/","a",".","p","d","f">>

\* the size part of a tooltip for an estimated size
SizeShown(size) ==
    IF size = Null \/ size = 0 THEN <<"s","i","z","e"," ","n","o","t"," ","a","v","a","i","l","a","b","l","e">> ELSE humanFileSize(size)

\* C14: the size part of the tooltip of every link agrees with its
\* estimatedSize: the placeholder exactly when the size is null or zero,
\* otherwise the human-readable form of that size.
C14_TooltipAgreesWithSize ==
    Succeeded =>
        \A k \in 1..Len(responses[1].links) :
            responses[1].links[k].tooltip
                = (IF responses[1].links[k].extension # <<>>
                   THEN toUpperCase(responses[1].links[k].extension) ELSE <<"F","I","L","E">>)
                  \o <<","," ">> \o SizeShown(responses[1].links[k].estimatedSize)
                  \o <<","," ","o","p","e","n","s"," ","i","n"," ","a"," ","n","e","w"," ","w","i","n","d","o","w">>

\* C15: every link of a result has a non-empty extension that is one of the
\* configured extensions, whatever its filename was derived from and also
\* when the extension matched sits in the query string.
C15_ExtensionConfigured ==
    Succeeded =>
        \A k \in 1..Len(responses[1].links) :
            /\ responses[1].links[k].extension # <<>>
            /\ \E e \in 1..Len(request.settings.fileExtensions) :
                   responses[1].links[k].extension = request.settings.fileExtensions[e]

----------------------------------------------------------------------------
(* SpecPopup: the popup extracting links and starting downloads            *)

\* most calls of extractLinks under way at once
MaxAttempts == 2

\* a click on the extract button: extractLinks up to its first await, the
\* query for the active tab
ExtractLinks ==
    /\ extracting.tab + extracting.message < MaxAttempts
    /\ extracting' = [extracting EXCEPT !.tab = @ + 1]
    /\ UNCHANGED <<extractedLinks, batches, outcome, extractVars, pureVars>>

\* the tab query resolves: the settings are read and the extractLinks
\* message is sent to the tab
TabQueried ==
    /\ extracting.tab > 0
    /\ extracting' = [tab |-> extracting.tab - 1, message |-> extracting.message + 1]
    /\ UNCHANGED <<extractedLinks, batches, outcome, extractVars, pureVars>>

\* the tab query throws (no active tab): the catch block shows the error
TabQueryFails ==
    /\ extracting.tab > 0
    /\ extracting' = [extracting EXCEPT !.tab = @ - 1]
    /\ outcome' = "exception"
    /\ UNCHANGED <<extractedLinks, batches, extractVars, pureVars>>

\* sendMessage is rejected (no content script in the tab): the catch block
\* shows the error
SendMessageFails ==
    /\ extracting.message > 0
    /\ extracting' = [extracting EXCEPT !.message = @ - 1]
    /\ outcome' = "exception"
    /\ UNCHANGED <<extractedLinks, batches, extractVars, pureVars>>

\* the response is {success: true, links}: this.extractedLinks =
\* response.links and the results are displayed
ResponseSuccess ==
    /\ extracting.message > 0
    /\ extracting' = [extracting EXCEPT !.message = @ - 1]
    /\ \E links \in LinkLists : extractedLinks' = links
    /\ outcome' = "results"
    /\ UNCHANGED <<batches, extractVars, pureVars>>

\* a {success: false} response that empties the list
ResponseFailure_ClearsList ==
    /\ extracting.message > 0
    /\ extracting' = [extracting EXCEPT !.message = @ - 1]
    /\ extractedLinks' = <<>>
    /\ outcome' = "failure response"
    /\ UNCHANGED <<batches, extractVars, pureVars>>

\* the response is {success: false, error}: an Error with response.error is
\* thrown and the catch block shows it
ResponseFailure ==
    /\ extracting.message > 0
    /\ extracting' = [extracting EXCEPT !.message = @ - 1]
    /\ outcome' = "failure response"
    /\ UNCHANGED <<extractedLinks, batches, extractVars, pureVars>>

\* sendMessage resolves with undefined (the listener sent nothing): an Error
\* 'Failed to extract links' is thrown and the catch block shows it
ResponseMissing ==
    /\ extracting.message > 0
    /\ extracting' = [extracting EXCEPT !.message = @ - 1]
    /\ outcome' = "no response"
    /\ UNCHANGED <<extractedLinks, batches, extractVars, pureVars>>

NextPopup ==
    \/ ExtractLinks
    \/ TabQueried
    \/ TabQueryFails
    \/ SendMessageFails
    \/ ResponseSuccess
    \/ ResponseFailure
    \/ ResponseMissing
    \/ DownloadFiles

SpecPopup == InitDownload /\ [][NextPopup]_vars

FailedOutcomes == {"exception", "failure response", "no response"}

\* a call of extractLinks ends in this step
AttemptEnds ==
    extracting'.tab + extracting'.message < extracting.tab + extracting.message

\* C16: a call of extractLinks that fails (no response, a {success: false}
\* response, an exception) leaves the extracted list as it was; the list
\* changes only when a call ends with a success response; a download
\* started afterwards takes the list as it then is.
C16_FailureKeepsLinks ==
    [][/\ (AttemptEnds /\ outcome' \in FailedOutcomes) => extractedLinks' = extractedLinks
       /\ extractedLinks' # extractedLinks => (AttemptEnds /\ outcome' = "results")
       /\ Len(batches') > Len(batches) =>
              batches'[Len(batches')].links = extractedLinks]_vars

\* the last call of extractLinks failed, the list of the success before it
\* is still held, and the download started last runs over it
C16_DownloadAfterFailure ==
    /\ outcome \in FailedOutcomes
    /\ Len(extractedLinks) = 2
    /\ batches # <<>>
    /\ batches[Len(batches)].links = extractedLinks

====
